---- MODULE Spec2Model ----
(***************************************************************************)
(* Layout generators of abs_templates_ec/serdes/tx_cml.py (LoadResistor,   *)
(* CMLLoadSingle, CMLCorePMOS) and test_scripts/analogbase.py              *)
(* (AmpBaseChain), modelled as state machines over the geometry they emit. *)
(* The host framework (routing grid, AnalogBaseInfo, template database) is *)
(* the environment: what it returns is drawn from bounded sets in Init.    *)
(***************************************************************************)
EXTENDS Integers, Sequences, FiniteSets, TLC

(***************************************************************************)
(* Bounds of the model.                                                    *)
(***************************************************************************)
MaxNx == 2
MaxNdum == 1
MaxTrack == 1
MaxTotWidth == 3
MaxRes == 2
MaxSdPitch == 2
MaxNeg == 1
MaxWidth == 3
MaxFg == 2
MaxSeg == 2
MaxEmVal == 2
MaxX == 9
MaxBlk == 4

(***************************************************************************)
(* Python's None / a present value.                                        *)
(***************************************************************************)
None == {}
Some(v) == {v}
TheValue(o) == CHOOSE v \in o : TRUE

VARIABLES
    \* LoadResistor (also the res_master of CMLLoadSingle)
    res_nx,          \* params['nx']
    res_ndum,        \* params['ndum']
    res_show,        \* params['show_pins']
    vm_track,        \* grid: track index the wires of array column idx land on
    res_ncol,        \* number of columns handed to draw_array (None before)
    res_pins,        \* the add_pin calls of LoadResistor, in order
    res_pc,
    \* CMLLoadSingle
    load_show,       \* params['show_pins']
    sub_port_name,   \* sub_master.port_name
    dummy_lookup,    \* framework: does get_all_port_pins of a missing port raise
    output_tracks,   \* self._output_tracks
    load_pins,       \* the add_pin / reexport calls of CMLLoadSingle, in order
    load_pc,
    \* CMLCorePMOS
    tot_width,       \* params['tot_width'], a length in layout units
    resolution,      \* self.grid.resolution, in the same units
    sd_pitch,        \* layout_info.sd_pitch_unit
    total_width,     \* layout_info.get_total_width(fg, guard_ring_nf), per fg
    fg,              \* params['fg']
    fg_ref,          \* params['fg_ref']
    core_tracks,     \* params['output_tracks']
    em_specs,        \* params['em_specs']
    core_show,       \* params['show_pins']
    fg_tot,          \* local fg_tot
    cur_width,       \* local cur_width
    width_calls,     \* the fg arguments of the get_total_width calls, in order
    core_error,      \* the ValueError raised, if any
    base_call,       \* fg_tot of the draw_base call (None before)
    hm_em,           \* EM spec handed to get_min_track_width for hm_width
    vm_em,           \* EM spec handed to get_min_track_width for vm_width
    ref_em_specs,    \* EM spec handed to get_min_track_width for hm_width_ref
    mos_conns,       \* number of draw_mos_conn calls
    track_conns,     \* number of connect_to_tracks calls
    core_pins,       \* names given to add_pin
    core_pc,
    \* AmpBaseChain
    x1_right,        \* inst1.bound_box.right_unit
    xblk,            \* block width of master2.top_layer
    m2_sized,        \* master2.size is not None
    m2_width,        \* width of master2's bounding box
    x2_loc,          \* x of the loc handed to add_instance for X2 (None before)
    chain_pc

resVars == <<res_nx, res_ndum, res_show, vm_track, res_ncol, res_pins, res_pc>>
loadVars == <<load_show, sub_port_name, dummy_lookup, output_tracks, load_pins, load_pc>>
coreParams == <<tot_width, resolution, sd_pitch, total_width, fg, fg_ref, core_tracks,
                em_specs, core_show>>
coreSolve == <<fg_tot, cur_width, width_calls>>
coreOut == <<base_call, hm_em, vm_em, ref_em_specs, mos_conns, track_conns, core_pins>>
coreVars == <<coreParams, coreSolve, core_error, coreOut, core_pc>>
chainVars == <<x1_right, xblk, m2_sized, m2_width, x2_loc, chain_pc>>
vars == <<resVars, loadVars, coreVars, chainVars>>

(***************************************************************************)
(* A template class that is not instantiated in a run.                     *)
(***************************************************************************)
ResIdle ==
    /\ res_nx = 0
    /\ res_ndum = 0
    /\ res_show = FALSE
    /\ vm_track = <<>>
    /\ res_ncol = None
    /\ res_pins = <<>>
    /\ res_pc = "idle"

LoadIdle ==
    /\ load_show = FALSE
    /\ sub_port_name = "VSS"
    /\ dummy_lookup = "empty"
    /\ output_tracks = None
    /\ load_pins = <<>>
    /\ load_pc = "idle"

CoreIdle ==
    /\ tot_width = 0
    /\ resolution = 1
    /\ sd_pitch = 1
    /\ total_width = <<>>
    /\ fg = 1
    /\ fg_ref = 1
    /\ core_tracks = <<>>
    /\ em_specs = <<>>
    /\ core_show = FALSE
    /\ fg_tot = 0
    /\ cur_width = 0
    /\ width_calls = <<>>
    /\ core_error = None
    /\ base_call = None
    /\ hm_em = None
    /\ vm_em = None
    /\ ref_em_specs = None
    /\ mos_conns = 0
    /\ track_conns = 0
    /\ core_pins = {}
    /\ core_pc = "idle"

ChainIdle ==
    /\ x1_right = 0
    /\ xblk = 1
    /\ m2_sized = FALSE
    /\ m2_width = 1
    /\ x2_loc = None
    /\ chain_pc = "idle"

(***************************************************************************)
(* LoadResistor                                                            *)
(***************************************************************************)
\* 'bot<%d>' % k
PinName(prefix, k) == prefix \o "<" \o ToString(k) \o ">"

\* get_res_ports(0, idx) followed by _export_to_vm: the wire of one terminal
\* of the resistor in column idx, brought up to its vertical track.
ExportToVm(idx, term, track) == [ends |-> {<<idx, term>>}, track |-> track]

\* connect_wires([bot, top])
ConnectWires(bot, top) == [ends |-> bot.ends \cup top.ends, track |-> bot.track]

\* add_pin(name, wire, show=show)
AddPin(pins, name, wire, show) ==
    Append(pins, [name |-> name, wire |-> wire, show |-> show])

\* idx < ndum or idx >= nx + ndum
IsDummyColumn(idx, nx, ndum) == idx < ndum \/ idx >= nx + ndum

\* variant: the array column index itself goes into the pin name
PinIndexRaw(idx, ndum) == idx

\* the index written into the pin name of a non-dummy column
PinIndex(idx, ndum) == idx - ndum

\* variant: dummies on one side only
ArrayColumnsOneSide(nx, ndum) == nx + ndum

\* nx=nx + 2 * ndum in the draw_array call
ArrayColumns(nx, ndum) == nx + 2 * ndum

\* body of the loop at one idx
ResColumn(pins, idx, nx, ndum, show, track) ==
    LET bot == ExportToVm(idx, "bot", track[idx])
        top == ExportToVm(idx, "top", track[idx])
    IN  IF IsDummyColumn(idx, nx, ndum)
        THEN AddPin(pins, "dummy", ConnectWires(bot, top), show)
        ELSE AddPin(AddPin(pins, PinName("bot", PinIndex(idx, ndum)), bot, show),
                    PinName("top", PinIndex(idx, ndum)), top, show)

\* for idx in range(nx + 2 * ndum)
RECURSIVE ResLoop(_, _, _, _, _, _, _)
ResLoop(pins, idx, ncol, nx, ndum, show, track) ==
    IF idx >= ncol THEN pins
    ELSE ResLoop(ResColumn(pins, idx, nx, ndum, show, track),
                 idx + 1, ncol, nx, ndum, show, track)

\* LoadResistor.draw_layout
LoadResistorPins(nx, ndum, show, track) ==
    ResLoop(<<>>, 0, ArrayColumns(nx, ndum), nx, ndum, show, track)

ResParamsInit ==
    /\ res_nx \in 0..MaxNx
    /\ res_ndum \in 0..MaxNdum
    /\ vm_track \in [0..(ArrayColumns(res_nx, res_ndum) - 1) -> 0..MaxTrack]
    /\ res_ncol = None
    /\ res_pins = <<>>
    /\ res_pc = "new"

InitRes ==
    /\ ResParamsInit
    /\ res_show \in BOOLEAN
    /\ LoadIdle
    /\ CoreIdle
    /\ ChainIdle

ResDrawLayout ==
    /\ res_pc = "new"
    /\ load_pc = "idle"
    /\ res_ncol' = Some(ArrayColumns(res_nx, res_ndum))
    /\ res_pins' = LoadResistorPins(res_nx, res_ndum, res_show, vm_track)
    /\ res_pc' = "done"
    /\ UNCHANGED <<res_nx, res_ndum, res_show, vm_track, loadVars, coreVars, chainVars>>

NextRes == ResDrawLayout

SpecRes == InitRes /\ [][NextRes]_vars

(***************************************************************************)
(* CMLLoadSingle                                                           *)
(***************************************************************************)
\* Port.get_pins: the pins added under one port name, in the order added
PortPins(pins, name) == SelectSeq(pins, LAMBDA p : p.name = name)

\* connect_to_tracks(sub_warrs, warr.track_id, track_lower=warr.upper): a wire
\* on warr's own track that starts where warr ends and reaches the substrate
\* contact's wires.
ConnectToSub(warr) == [ends |-> warr.ends, track |-> warr.track, sub |-> TRUE]

\* variant: the port keeps the resistor's own name
ReexportKeepName(idx) == PinName("bot", idx)

\* net_name='out<%d>' % idx
ReexportName(idx) == PinName("out", idx)

\* reexport(res_inst.get_port(name), net_name=net_name, show=show)
RECURSIVE Reexport(_, _, _, _)
Reexport(pins, port, net_name, show) ==
    IF port = <<>> THEN pins
    ELSE Reexport(AddPin(pins, net_name,
                         [ends |-> Head(port).wire.ends,
                          track |-> Head(port).wire.track, sub |-> FALSE], show),
                  Tail(port), net_name, show)

\* for dum_warr in res_inst.get_all_port_pins('dummy')
RECURSIVE LoadDummyLoop(_, _, _, _)
LoadDummyLoop(pins, dums, port_name, show) ==
    IF dums = <<>> THEN pins
    ELSE LoadDummyLoop(AddPin(pins, port_name, ConnectToSub(Head(dums).wire), show),
                       Tail(dums), port_name, show)

\* res_inst.get_all_port_pins('top<%d>' % idx)[0]
TopPin(rpins, idx) == PortPins(rpins, PinName("top", idx))[1]

\* variant: the track is put at the front of the list
PrependTrack(tracks, top) == <<top.wire.track>> \o tracks

\* self._output_tracks.append(top.track_id.base_index)
AppendTrack(tracks, top) == Append(tracks, top.wire.track)

\* for idx in range(res_params['nx'])
RECURSIVE LoadOutLoop(_, _, _, _, _, _)
LoadOutLoop(st, idx, nx, rpins, port_name, show) ==
    IF idx >= nx THEN st
    ELSE LET top == TopPin(rpins, idx)
             p1 == AddPin(st.pins, port_name, ConnectToSub(top.wire), show)
             p2 == Reexport(p1, PortPins(rpins, PinName("bot", idx)),
                            ReexportName(idx), show)
         IN  LoadOutLoop([tracks |-> AppendTrack(st.tracks, top), pins |-> p2],
                         idx + 1, nx, rpins, port_name, show)

\* CMLLoadSingle._draw_layout_helper from the dummy loop on
LoadLayout(rpins, nx, port_name, show) ==
    LoadOutLoop([tracks |-> <<>>,
                 pins |-> LoadDummyLoop(<<>>, PortPins(rpins, "dummy"), port_name, show)],
                0, nx, rpins, port_name, show)

\* the resistor master has no 'dummy' port when no column is a dummy
HasDummyPort(rpins) == PortPins(rpins, "dummy") # <<>>

InitLoad ==
    /\ ResParamsInit
    /\ res_show \in BOOLEAN
    /\ load_show \in BOOLEAN
    /\ sub_port_name \in {"VDD", "VSS"}
    /\ dummy_lookup \in {"empty", "raise"}
    /\ output_tracks = None
    /\ load_pins = <<>>
    /\ load_pc = "new"
    /\ CoreIdle
    /\ ChainIdle

\* res_params['show_pins'] = False; new_template(..., temp_cls=LoadResistor)
NewResMaster ==
    /\ res_ncol' = Some(ArrayColumns(res_nx, res_ndum))
    /\ res_pins' = LoadResistorPins(res_nx, res_ndum, FALSE, vm_track)
    /\ res_pc' = "done"

\* draw_layout runs to its end
LoadDrawLayout ==
    /\ load_pc = "new"
    /\ NewResMaster
    /\ HasDummyPort(res_pins') \/ dummy_lookup = "empty"
    /\ LET st == LoadLayout(res_pins', res_nx, sub_port_name, load_show)
       IN  /\ output_tracks' = Some(st.tracks)
           /\ load_pins' = st.pins
    /\ load_pc' = "done"
    /\ UNCHANGED <<res_nx, res_ndum, res_show, vm_track, load_show, sub_port_name,
                   dummy_lookup, coreVars, chainVars>>

\* get_all_port_pins('dummy') raises for a port the resistor master lacks
LoadDrawLayoutRaise ==
    /\ load_pc = "new"
    /\ NewResMaster
    /\ ~HasDummyPort(res_pins') /\ dummy_lookup = "raise"
    /\ load_pc' = "error"
    /\ UNCHANGED <<res_nx, res_ndum, res_show, vm_track, load_show, sub_port_name,
                   dummy_lookup, output_tracks, load_pins, coreVars, chainVars>>

NextLoad == LoadDrawLayout \/ LoadDrawLayoutRaise

SpecLoad == InitLoad /\ [][NextLoad]_vars

(***************************************************************************)
(* CMLCorePMOS                                                             *)
(***************************************************************************)
\* round(n / d) of Python 3 (and of the builtins package): a tie goes to the
\* even neighbour.  n >= 0, d > 0.
RoundHalfEven(n, d) ==
    LET q == n \div d
        r2 == 2 * (n % d)
    IN  IF r2 < d THEN q
        ELSE IF r2 > d THEN q + 1
        ELSE IF q % 2 = 0 THEN q ELSE q + 1

\* tot_width_unit = int(round(tot_width / res))
TotWidthUnit(tw, res) == RoundHalfEven(tw, res)

\* variant: the remainder is tested for the wrong sign
NotMultipleNeg(unit, sd) == unit % sd < 0

\* tot_width_unit % sd_pitch != 0
NotMultiple(unit, sd) == unit % sd # 0

\* variant: the width in resolution units is taken as a number of pitches
NumPitchUnits(unit, sd) == unit

\* num_pitch = tot_width_unit // sd_pitch
NumPitch(unit, sd) == unit \div sd

\* while cur_width > num_pitch
LoopCond(cur, np) == cur > np

\* variant: only a width above the target is rejected
CannotAchieveAbove(cur, np) == cur > np

\* if cur_width != num_pitch: raise
CannotAchieve(cur, np) == cur # np

\* a rational number n / d
Rat(n, d) == [n |-> n, d |-> d]
RatDiv(a, b) == Rat(a.n * b.d, a.d * b.n)
RatMul(a, b) == Rat(a.n * b.n, a.d * b.d)

\* variant: the ratio is taken upside down
CurRatioInverted(f, fr) == Rat(fr, f)

\* cur_ratio = fg / fg_ref (true division)
CurRatio(f, fr) == Rat(f, fr)

\* for key in ['idc', 'iac_rms', 'iac_peak']
ScaledKeys == {"idc", "iac_rms", "iac_peak"}

\* ref_em_specs = em_specs.copy(); ref_em_specs[key] *= num_seg / cur_ratio
RefEmSpecs(em, num_seg, cur_ratio) ==
    [k \in DOMAIN em |->
        IF k \in ScaledKeys
        THEN RatMul(Rat(em[k], 1), RatDiv(Rat(num_seg, 1), cur_ratio))
        ELSE Rat(em[k], 1)]

\* the names handed to add_pin after draw_base
CorePinNames(num_seg) ==
    UNION {{PinName("outp", i), PinName("outn", i), PinName("VDD", i)} :
           i \in 0..(num_seg - 1)}
    \cup {"inp", "inn", "ibias", "VSS", "VDD"}

EmKeys == {"idc", "iac_rms", "iac_peak", "dc_temp"}

\* the parameter sets a run draws from
InitCoreOn(tws, ress, sds, neg, widths, fgs, segs, ems) ==
    /\ tot_width \in tws
    /\ resolution \in ress
    /\ sd_pitch \in sds
    /\ total_width \in
          [(0 - neg)..NumPitch(TotWidthUnit(tot_width, resolution), sd_pitch) -> widths]
    /\ fg \in fgs
    /\ fg_ref \in fgs
    /\ core_tracks \in {[i \in 1..n |-> 2 * i] : n \in segs}
    /\ em_specs \in ems
    /\ core_show \in BOOLEAN
    /\ fg_tot = 0
    /\ cur_width = 0
    /\ width_calls = <<>>
    /\ core_error = None
    /\ base_call = None
    /\ hm_em = None
    /\ vm_em = None
    /\ ref_em_specs = None
    /\ mos_conns = 0
    /\ track_conns = 0
    /\ core_pins = {}
    /\ core_pc = "new"
    /\ ResIdle
    /\ LoadIdle
    /\ ChainIdle

InitCore ==
    InitCoreOn(0..MaxTotWidth, 1..MaxRes, 1..MaxSdPitch, MaxNeg, 0..MaxWidth,
               {1}, {1}, {[k \in {"idc"} |-> 1]})

InitEM ==
    InitCoreOn(0..1, {1}, 1..MaxSdPitch, 0, 0..2,
               1..MaxFg, 0..MaxSeg, UNION {[K -> 1..MaxEmVal] : K \in SUBSET EmKeys})

\* raise ValueError('total width = %.4g not multiple of source/drain pitch.')
CoreRaiseNotMultiple ==
    /\ core_pc = "new"
    /\ NotMultiple(TotWidthUnit(tot_width, resolution), sd_pitch)
    /\ core_error' = Some("not multiple")
    /\ core_pc' = "error"
    /\ UNCHANGED <<coreParams, coreSolve, coreOut, resVars, loadVars, chainVars>>

\* fg_tot = num_pitch; cur_width = get_total_width(fg_tot)
CoreBeginSolve ==
    /\ core_pc = "new"
    /\ ~NotMultiple(TotWidthUnit(tot_width, resolution), sd_pitch)
    /\ LET np == NumPitch(TotWidthUnit(tot_width, resolution), sd_pitch)
       IN  /\ fg_tot' = np
           /\ cur_width' = total_width[np]
           /\ width_calls' = <<np>>
    /\ core_pc' = "solve"
    /\ UNCHANGED <<coreParams, core_error, coreOut, resVars, loadVars, chainVars>>

\* one turn of the while loop
CoreLoopStep ==
    /\ core_pc = "solve"
    /\ LoopCond(cur_width, NumPitch(TotWidthUnit(tot_width, resolution), sd_pitch))
    /\ fg_tot - 1 \in DOMAIN total_width
    /\ fg_tot' = fg_tot - 1
    /\ cur_width' = total_width[fg_tot - 1]
    /\ width_calls' = Append(width_calls, fg_tot - 1)
    /\ UNCHANGED <<coreParams, core_error, coreOut, core_pc, resVars, loadVars, chainVars>>

\* raise ValueError('Cannot achieve a total width of %.4g')
CoreRaiseCannotAchieve ==
    /\ core_pc = "solve"
    /\ LET np == NumPitch(TotWidthUnit(tot_width, resolution), sd_pitch)
       IN  /\ ~LoopCond(cur_width, np)
           /\ CannotAchieve(cur_width, np)
    /\ core_error' = Some("cannot achieve")
    /\ core_pc' = "error"
    /\ UNCHANGED <<coreParams, coreSolve, coreOut, resVars, loadVars, chainVars>>

\* the rest of _draw_layout_helper: track widths, draw_base, transistors, pins
CoreDraw ==
    /\ core_pc = "solve"
    /\ LET np == NumPitch(TotWidthUnit(tot_width, resolution), sd_pitch)
       IN  /\ ~LoopCond(cur_width, np)
           /\ ~CannotAchieve(cur_width, np)
    /\ hm_em' = Some(em_specs)
    /\ vm_em' = Some(em_specs)
    /\ ref_em_specs' = Some(RefEmSpecs(em_specs, Len(core_tracks), CurRatio(fg, fg_ref)))
    /\ base_call' = Some(fg_tot)
    /\ mos_conns' = 4 * Len(core_tracks)
    /\ track_conns' = 6 * Len(core_tracks) + 4
    /\ core_pins' = CorePinNames(Len(core_tracks))
    /\ core_pc' = "done"
    /\ UNCHANGED <<coreParams, coreSolve, core_error, resVars, loadVars, chainVars>>

NextCore ==
    \/ CoreRaiseNotMultiple
    \/ CoreBeginSolve
    \/ CoreLoopStep
    \/ CoreRaiseCannotAchieve
    \/ CoreDraw

SpecCore == InitCore /\ [][NextCore]_vars

SpecEM == InitEM /\ [][NextCore]_vars

(***************************************************************************)
(* AmpBaseChain                                                            *)
(***************************************************************************)
\* x0 = (-x0 // xblk) * xblk
SnapToBlock(x0, blk) == ((0 - x0) \div blk) * blk

InitChain ==
    /\ x1_right \in 0..MaxX
    /\ xblk \in 1..MaxBlk
    /\ m2_sized \in BOOLEAN
    /\ m2_width \in 1..MaxBlk
    /\ x2_loc = None
    /\ chain_pc = "new"
    /\ ResIdle
    /\ LoadIdle
    /\ CoreIdle

\* AmpBaseChain.draw_layout
ChainDrawLayout ==
    /\ chain_pc = "new"
    /\ x2_loc' = Some(IF m2_sized THEN SnapToBlock(x1_right, xblk) ELSE x1_right)
    /\ chain_pc' = "done"
    /\ UNCHANGED <<x1_right, xblk, m2_sized, m2_width, resVars, loadVars, coreVars>>

NextChain == ChainDrawLayout

SpecChain == InitChain /\ [][NextChain]_vars

(***************************************************************************)
(* Properties                                                              *)
(***************************************************************************)
Abs(x) == IF x < 0 THEN 0 - x ELSE x

\* the columns of the resistor array exported on a pin of the given kind
ColumnsOn(isDummy) ==
    {c \in 0..(TheValue(res_ncol) - 1) :
        \E i \in DOMAIN res_pins :
            /\ (res_pins[i].name = "dummy") = isDummy
            /\ \E e \in res_pins[i].wire.ends : e[1] = c}

\* the number of add_pin calls of LoadResistor under one name
ResPinCount(name) == Cardinality({i \in DOMAIN res_pins : res_pins[i].name = name})

C5_PinNaming ==
    res_pc = "done" =>
        /\ \A k \in 0..(res_nx - 1) :
              /\ ResPinCount("bot<" \o ToString(k) \o ">") = 1
              /\ ResPinCount("top<" \o ToString(k) \o ">") = 1
              /\ \A i \in DOMAIN res_pins :
                    /\ res_pins[i].name = "bot<" \o ToString(k) \o ">"
                          => res_pins[i].wire.ends = {<<k + res_ndum, "bot">>}
                    /\ res_pins[i].name = "top<" \o ToString(k) \o ">"
                          => res_pins[i].wire.ends = {<<k + res_ndum, "top">>}
        /\ \A i \in DOMAIN res_pins :
              res_pins[i].name \in
                  {"dummy"} \cup {"bot<" \o ToString(k) \o ">" : k \in 0..(res_nx - 1)}
                            \cup {"top<" \o ToString(k) \o ">" : k \in 0..(res_nx - 1)}
        /\ \A c \in 0..(TheValue(res_ncol) - 1) :
              (c < res_ndum \/ c >= res_nx + res_ndum) =>
                  LET on == {i \in DOMAIN res_pins :
                                \E e \in res_pins[i].wire.ends : e[1] = c}
                  IN  /\ Cardinality(on) = 1
                      /\ \A i \in on :
                            /\ res_pins[i].name = "dummy"
                            /\ res_pins[i].wire.ends = {<<c, "bot">>, <<c, "top">>}

C5_Witness ==
    /\ res_pc = "done" /\ load_pc = "idle"
    /\ res_nx = 2 /\ res_ndum = 1
    /\ Len(res_pins) = 6
    /\ res_pins[5].name = "top<1>"

\* C6: output_tracks is None until draw_layout has run; after it, it is a list
\* of length nx whose i-th entry is the track index of resistor pin top<i>.
C6_OutputTracks ==
    /\ load_pc = "new" => output_tracks = None
    /\ load_pc = "done" =>
          /\ output_tracks # None
          /\ LET tr == TheValue(output_tracks)
             IN  /\ Len(tr) = res_nx
                 /\ \A i \in 0..(res_nx - 1) :
                       \E j \in DOMAIN res_pins :
                           /\ res_pins[j].name = "top<" \o ToString(i) \o ">"
                           /\ tr[i + 1] = res_pins[j].wire.track
                           /\ tr[i + 1] = vm_track[i + res_ndum]

C6_Witness ==
    /\ load_pc = "done"
    /\ res_nx = 2
    /\ output_tracks # None
    /\ Len(TheValue(output_tracks)) = 2
    /\ TheValue(output_tracks)[1] # TheValue(output_tracks)[2]

\* C7: after draw_layout every bot<i> is exported as out<i> and is not tied to
\* the substrate port; every top<i> wire and every dummy wire of the array is
\* tied to the substrate port and exported under its name; CMLLoadSingle has
\* no port named top<i>, bot<i> or dummy.
C7_LoadPorts ==
    load_pc = "done" =>
        /\ \A i \in 0..(res_nx - 1) :
              \E j \in DOMAIN load_pins :
                  /\ load_pins[j].name = "out<" \o ToString(i) \o ">"
                  /\ load_pins[j].wire.ends = {<<i + res_ndum, "bot">>}
                  /\ ~load_pins[j].wire.sub
        /\ \A j \in DOMAIN load_pins :
              (\E i \in 0..(res_nx - 1) : <<i + res_ndum, "bot">> \in load_pins[j].wire.ends)
                  => /\ ~load_pins[j].wire.sub
                     /\ load_pins[j].name # sub_port_name
        /\ \A r \in DOMAIN res_pins :
              (\/ res_pins[r].name = "dummy"
               \/ \E i \in 0..(res_nx - 1) :
                     res_pins[r].name = "top<" \o ToString(i) \o ">")
                  => \E j \in DOMAIN load_pins :
                        /\ load_pins[j].wire.ends = res_pins[r].wire.ends
                        /\ load_pins[j].wire.sub
                        /\ load_pins[j].name = sub_port_name
        /\ \A j \in DOMAIN load_pins :
              load_pins[j].name \in
                  {sub_port_name} \cup {"out<" \o ToString(i) \o ">" : i \in 0..(res_nx - 1)}

C7_Witness ==
    /\ load_pc = "done"
    /\ res_nx >= 1 /\ res_ndum >= 1
    /\ \E j \in DOMAIN load_pins : load_pins[j].name = "out<0>"
    /\ \E j \in DOMAIN load_pins : load_pins[j].wire.sub

\* num_pitch of the claims: round(tot_width / resolution) // sd_pitch
TargetPitches == RoundHalfEven(tot_width, resolution) \div sd_pitch

\* some finger count up to num_pitch has exactly the target width
Achievable ==
    \E f \in DOMAIN total_width : f <= TargetPitches /\ total_width[f] = TargetPitches

C2_NotMultipleRaises ==
    (core_pc # "idle" /\ RoundHalfEven(tot_width, resolution) % sd_pitch # 0) =>
        /\ width_calls = <<>>
        /\ base_call = None
        /\ mos_conns = 0
        /\ track_conns = 0
        /\ core_pins = {}
        /\ core_pc \in {"new", "error"}
        /\ core_pc = "error" => core_error = Some("not multiple")

C2_Witness ==
    /\ core_pc = "error"
    /\ core_error = Some("not multiple")
    /\ RoundHalfEven(tot_width, resolution) % sd_pitch # 0

C8_RefEmScaling ==
    core_pc = "done" =>
        /\ hm_em = Some(em_specs)
        /\ vm_em = Some(em_specs)
        /\ ref_em_specs # None
        /\ LET ref == TheValue(ref_em_specs)
           IN  /\ DOMAIN ref = DOMAIN em_specs
               /\ \A k \in DOMAIN em_specs :
                     /\ ref[k].d # 0
                     /\ IF k \in {"idc", "iac_rms", "iac_peak"}
                        THEN ref[k].n * fg
                                = em_specs[k] * Len(core_tracks) * fg_ref * ref[k].d
                        ELSE ref[k].n = em_specs[k] * ref[k].d

C8_Witness ==
    /\ core_pc = "done"
    /\ DOMAIN em_specs = {"idc", "iac_peak", "dc_temp"}
    /\ fg = 1 /\ fg_ref = 2
    /\ Len(core_tracks) = 2
    /\ ref_em_specs # None
    /\ TheValue(ref_em_specs)["idc"].n = 4 * em_specs["idc"] * TheValue(ref_em_specs)["idc"].d
    /\ TheValue(ref_em_specs)["dc_temp"].n = em_specs["dc_temp"] * TheValue(ref_em_specs)["dc_temp"].d

\* C9: with master2.size set, X2 sits at x0 rounded up to the block grid (a
\* multiple of xblk, at or right of X1's right edge, so the two bounding boxes
\* do not overlap); without it, X2 sits exactly at x0.
C9_PlacedAfterX1 ==
    chain_pc = "done" =>
        LET loc == TheValue(x2_loc)
        IN  /\ m2_sized =>
                  /\ loc % xblk = 0
                  /\ loc >= x1_right
                  /\ loc < x1_right + xblk
                  /\ ~(loc < x1_right /\ 0 < loc + m2_width)
            /\ ~m2_sized => loc = x1_right

====
